---- MODULE Spec2Model ----
(***************************************************************************)
(* LUAN - Infracredit AI Bot (src/app.py): the query normalisation and     *)
(* matching engine behind GET /welcome and POST /chat.                     *)
(*                                                                         *)
(* Python str values are TLA+ strings (TLC evaluates Len, SubSeq and \o on *)
(* them), a dict is a function whose DOMAIN is its set of keys, a list is  *)
(* a sequence.  One behaviour is one request against one upstream payload: *)
(* the handlers keep no state between requests (the payload is fetched     *)
(* afresh by every request).                                               *)
(***************************************************************************)
EXTENDS Naturals, Sequences, FiniteSets

VARIABLES
    upstream,       \* what the upstream FNI endpoint answers: [status, json]
    endpoint,       \* the entry point that ran: "idle" before the request
    query,          \* request.query of POST /chat
    faq_data,       \* what fetch_faqs returned to the handler
    intent,         \* the branch chat_with_bot took
    cleaned_query,  \* what clean_fuzzy_query returned on the fuzzy branch
    matches,        \* what search_faqs returned
    calls,          \* the functions of app.py the handler called
    response        \* the HTTP response: [status, body] or [status, detail]

vars == <<upstream, endpoint, query, faq_data, intent, cleaned_query, matches,
          calls, response>>

-----------------------------------------------------------------------------
(* Python values *)

\* Python None where a str is expected (dict.get without default, rendered as JSON null)
NoneStr == "null"

\* Python None where a dict is expected (the failure value of fetch_faqs)
None == [none |-> TRUE]

\* dict.get(key, default)
Get(d, key, default) == IF key \in DOMAIN d THEN d[key] ELSE default

\* truth value of a dict-or-None: None and {} are falsy
Truthy(d) == d # None /\ DOMAIN d # {}

Min(S) == CHOOSE m \in S : \A n \in S : m <= n

-----------------------------------------------------------------------------
(* str methods *)

\* characters str.strip(), str.split() and the regex class \s treat as whitespace
Whitespace == {" ", "\t", "\n", "\r"}

\* characters of the regex class \w: a word boundary \b lies between \w and non-\w
WordChars ==
    {"a", "b", "c", "d", "e", "f", "g", "h", "i", "j", "k", "l", "m", "n", "o", "p",
     "q", "r", "s", "t", "u", "v", "w", "x", "y", "z",
     "A", "B", "C", "D", "E", "F", "G", "H", "I", "J", "K", "L", "M", "N", "O", "P",
     "Q", "R", "S", "T", "U", "V", "W", "X", "Y", "Z",
     "0", "1", "2", "3", "4", "5", "6", "7", "8", "9", "_"}

LowerCaseOf ==
    [A |-> "a", B |-> "b", C |-> "c", D |-> "d", E |-> "e", F |-> "f", G |-> "g",
     H |-> "h", I |-> "i", J |-> "j", K |-> "k", L |-> "l", M |-> "m", N |-> "n",
     O |-> "o", P |-> "p", Q |-> "q", R |-> "r", S |-> "s", T |-> "t", U |-> "u",
     V |-> "v", W |-> "w", X |-> "x", Y |-> "y", Z |-> "z"]

\* s[i] (1-based)
CharAt(s, i) == SubSeq(s, i, i)

\* s[i:] (1-based, inclusive)
From(s, i) == SubSeq(s, i, Len(s))

RECURSIVE lower(_)
\* str.lower()
lower(s) ==
    IF s = "" THEN ""
    ELSE LET c == CharAt(s, 1)
         IN  (IF c \in DOMAIN LowerCaseOf THEN LowerCaseOf[c] ELSE c) \o lower(Tail(s))

RECURSIVE lstrip(_)
lstrip(s) ==
    IF s # "" /\ CharAt(s, 1) \in Whitespace THEN lstrip(Tail(s)) ELSE s

RECURSIVE rstrip(_)
rstrip(s) ==
    IF s # "" /\ CharAt(s, Len(s)) \in Whitespace
    THEN rstrip(SubSeq(s, 1, Len(s) - 1)) ELSE s

\* str.strip()
strip(s) == rstrip(lstrip(s))

\* s.startswith(prefix)
startswith(s, prefix) ==
    Len(prefix) <= Len(s) /\ SubSeq(s, 1, Len(prefix)) = prefix

\* sub in s
contains(s, sub) ==
    \E i \in 0..(Len(s) - Len(sub)) : Len(sub) <= Len(s) /\ SubSeq(s, i + 1, i + Len(sub)) = sub

\* the length of the run of non-whitespace characters s starts with
RECURSIVE WordLen(_)
WordLen(s) ==
    IF s = "" \/ CharAt(s, 1) \in Whitespace THEN 0 ELSE 1 + WordLen(Tail(s))

RECURSIVE split(_)
\* str.split(): the maximal runs of non-whitespace characters, in order
split(s) ==
    LET t == lstrip(s)
    IN  IF t = "" THEN <<>>
        ELSE LET n == WordLen(t) IN <<SubSeq(t, 1, n)>> \o split(From(t, n + 1))

-----------------------------------------------------------------------------
(* the fixed vocabularies of app.py *)

\* clean_tokens: stop_words
stop_words ==
    {"about", "on", "for", "of", "the", "a", "an", "me", "show",
     "list", "display", "find", "fetch", "tell", "give", "can", "you",
     "issues", "negotiated", "type", "document", "clause", "client"}

\* is_greeting: greetings
greetings ==
    <<"hi", "hello", "hey", "good morning", "good afternoon",
      "good evening", "what's up", "whatsup", "good day", "greetings">>

\* contains_fuzzy_command: fuzzy_keywords
fuzzy_keywords ==
    <<"show", "show me", "display", "find", "fetch", "list",
      "search", "search for", "view", "tell me", "tell me about",
      "give me", "can you show", "show me fni for", "give me fni for">>

\* clean_fuzzy_query: the alternatives of the prefix pattern ^(...)\s+, in the
\* order the regex tries them
prefix_alternatives ==
    <<"show", "show me", "give me", "tell me", "list", "display", "find", "fetch",
      "search", "search for", "view", "can you show", "what are", "what is",
      "tell me about">>

\* clean_fuzzy_query: the alternatives of the filler pattern \b(...)\b, in order
fillers ==
    <<"about", "type", "document", "clause", "client", "issues", "negotiated",
      "on", "for", "of", "the", "a", "an", "me", "show", "list", "display", "find",
      "fetch", "tell", "give", "can", "you", "fni">>

\* the texts of the responses, typographic apostrophes and arrows in ASCII
GuidanceText ==
    "Please specify what you'd like me to show, e.g. 'Show me FNI for Guarantee Agreement'."

NoMatchText ==
    "Hmm, I couldn't find any match for that. Try asking differently, e.g. 'Show me FNI in document type Guarantee Agreement'."

FetchFailedDetail == "Failed to fetch FAQs from server."

-----------------------------------------------------------------------------
(* the bot logic *)

\* fetch_faqs: the parsed payload on status 200, None on any other status or on a
\* body that is not JSON (upstream.json = None)
fetch_faqs(up) == IF up.status = "200" THEN up.json ELSE None

\* clean_tokens with the stop-word test left out
clean_tokens_short_only(tokens) ==
    SelectSeq(tokens, LAMBDA t : Len(t) > 1)

\* clean_tokens
clean_tokens(tokens) ==
    SelectSeq(tokens, LAMBDA t : t \notin stop_words /\ Len(t) > 1)

\* is_greeting comparing the whole text with a greeting instead of searching in it
is_greeting_whole_text(text) ==
    \E k \in 1..Len(greetings) : lower(text) = greetings[k]

\* is_greeting
is_greeting(text) ==
    LET t == lower(text)
    IN  \E k \in 1..Len(greetings) : contains(t, greetings[k])

\* contains_fuzzy_command
contains_fuzzy_command(text) ==
    LET t == strip(lower(text))
    IN  \E k \in 1..Len(fuzzy_keywords) : startswith(t, fuzzy_keywords[k])

\* the alternatives of ^(...)\s+ that match at the start of text: the alternative
\* itself, then at least one whitespace character
PrefixHits(text) ==
    {k \in 1..Len(prefix_alternatives) :
        /\ startswith(text, prefix_alternatives[k])
        /\ Len(text) > Len(prefix_alternatives[k])
        /\ CharAt(text, Len(prefix_alternatives[k]) + 1) \in Whitespace}

\* matched_prefix for a pattern whose alternatives are tried longest first
matched_prefix_longest(text) ==
    IF PrefixHits(text) = {} THEN ""
    ELSE prefix_alternatives[
            CHOOSE k \in PrefixHits(text) :
                \A j \in PrefixHits(text) :
                    Len(prefix_alternatives[j]) <= Len(prefix_alternatives[k])]

\* the alternative re.sub removes: the regex takes the first alternative, in the
\* order written, with which the whole pattern matches ("" when none does)
matched_prefix(text) ==
    LET hits == PrefixHits(text)
    IN  IF hits = {} THEN "" ELSE prefix_alternatives[Min(hits)]

\* re.sub(r"^(...)\s+", "", text): the alternative and the whitespace run after it
strip_prefix(text) ==
    LET matched == matched_prefix(text)
    IN  IF matched = "" THEN text ELSE lstrip(From(text, Len(matched) + 1))

\* \b between text[p] and text[p+1] (p = 0: before the first character)
WordBoundary(text, p) ==
    (p >= 1 /\ CharAt(text, p) \in WordChars)
        # (p < Len(text) /\ CharAt(text, p + 1) \in WordChars)

\* the alternatives of \b(...)\b that match at position i
FillerHits(text, i) ==
    {k \in 1..Len(fillers) :
        /\ i + Len(fillers[k]) - 1 <= Len(text)
        /\ SubSeq(text, i, i + Len(fillers[k]) - 1) = fillers[k]
        /\ WordBoundary(text, i - 1)
        /\ WordBoundary(text, i + Len(fillers[k]) - 1)}

RECURSIVE sub_fillers(_, _)
\* re.sub(fillers, "", text) from position i on: leftmost matches, left to right
sub_fillers(text, i) ==
    IF i > Len(text) THEN ""
    ELSE LET hits == FillerHits(text, i)
         IN  IF hits = {} THEN CharAt(text, i) \o sub_fillers(text, i + 1)
             ELSE sub_fillers(text, i + Len(fillers[Min(hits)]))

RECURSIVE collapse_spaces(_)
\* re.sub(r"\s+", " ", text)
collapse_spaces(s) ==
    IF s = "" THEN ""
    ELSE IF CharAt(s, 1) \in Whitespace THEN " " \o collapse_spaces(lstrip(s))
         ELSE CharAt(s, 1) \o collapse_spaces(Tail(s))

\* clean_fuzzy_query
clean_fuzzy_query(text) ==
    strip(collapse_spaces(sub_fillers(strip_prefix(strip(lower(text))), 1)))

\* the test of line 85 with any() in place of all()
any_token_in(query_tokens, combined_text) ==
    \E k \in 1..Len(query_tokens) : contains(combined_text, query_tokens[k])

\* the test of line 85 on one record: every token occurs in combined_text
all_tokens_in(query_tokens, combined_text) ==
    \A k \in 1..Len(query_tokens) : contains(combined_text, query_tokens[k])

RECURSIVE scan_fnis(_, _, _, _)
\* the inner loop of search_faqs over the records of one group
scan_fnis(fnis, clause_name, doc_type, query_tokens) ==
    IF fnis = <<>> THEN <<>>
    ELSE LET fn == Head(fnis)
             question == lower(Get(fn, "question", ""))
             clause == lower(Get(fn, "clauseName", clause_name))
             document_type == lower(Get(fn, "documentTypeName", doc_type))
             combined_text == question \o " " \o clause \o " " \o document_type
             hit == IF all_tokens_in(query_tokens, combined_text)
                    THEN <<[question |-> Get(fn, "question", NoneStr),
                            answer |-> Get(fn, "response", ""),
                            clause |-> clause,
                            documentType |-> document_type,
                            submittedBy |-> Get(fn, "submittedByUserName", "Unknown User")]>>
                    ELSE <<>>
         IN  hit \o scan_fnis(Tail(fnis), clause_name, doc_type, query_tokens)

RECURSIVE scan_items(_, _)
\* the outer loop of search_faqs over the groups
scan_items(faq_items, query_tokens) ==
    IF faq_items = <<>> THEN <<>>
    ELSE LET item == Head(faq_items)
         IN  scan_fnis(Get(item, "fnIs", <<>>),
                       lower(Get(item, "name", "")),
                       lower(Get(item, "documentTypeName", "")),
                       query_tokens)
             \o scan_items(Tail(faq_items), query_tokens)

\* query_tokens_of without the lower() of line 59
query_tokens_case_sensitive(q) == clean_tokens(split(strip(q)))

\* the tokens search_faqs matches with (lines 59-66)
query_tokens_of(q) == clean_tokens(split(lower(strip(q))))

\* search_faqs
search_faqs(q, fd) ==
    IF ~Truthy(fd) \/ "data" \notin DOMAIN fd THEN <<>>
    ELSE IF lower(strip(q)) = "" THEN <<>>
    ELSE LET query_tokens == query_tokens_of(q)
         IN  IF query_tokens = <<>> THEN <<>>
             ELSE scan_items(Get(fd["data"], "result", <<>>), query_tokens)

\* names_of without the "if item.get(key)" filter
names_of_unfiltered(result, key) ==
    [i \in 1..Len(result) |-> Get(result[i], key, "")]

\* [item.get(key, "") for item in result if item.get(key)]
names_of(result, key) ==
    LET kept == SelectSeq(result, LAMBDA item : Get(item, key, "") # "")
    IN  [i \in 1..Len(kept) |-> kept[i][key]]

KeyError == [raised |-> "KeyError"]

\* intro_message: faq_data["data"]["result"] raises KeyError on a missing key
intro_message(fd) ==
    IF "data" \notin DOMAIN fd \/ "result" \notin DOMAIN fd["data"] THEN KeyError
    ELSE LET result == fd["data"]["result"]
             clause_names == names_of(result, "name")
             doc_names == names_of(result, "documentTypeName")
             client_types == names_of(result, "clientTypeName")
             clause_example == IF clause_names # <<>> THEN clause_names[1] ELSE "Clause 1"
             doc_example == IF doc_names # <<>> THEN doc_names[1] ELSE "Document 1"
             client_example == IF client_types # <<>> THEN client_types[1] ELSE "Client 1"
         IN  [welcome |->
                [title |-> "Hi, I'm LUAN, Infracredit's AI Bot.",
                 intro |-> "Ask me things like:",
                 examples |->
                    <<"-> Show me negotiated issues about document type \"" \o doc_example \o "\"",
                      "-> Tell me about FNI for clause \"" \o clause_example \o "\"",
                      "-> List issues in client type \"" \o client_example \o "\"",
                      "-> Give me FNI for \"" \o clause_example \o "\"">>]]

-----------------------------------------------------------------------------
(* the HTTP handlers *)

HttpError(detail) == [status |-> 500, detail |-> detail]

\* what the server answers when a handler returns value v, or raises (an
\* exception that is not an HTTPException is answered 500 Internal Server Error)
HttpReturn(v) ==
    IF v = KeyError THEN HttpError("Internal Server Error")
    ELSE [status |-> 200, body |-> v]

\* get_welcome, after the fetch
get_welcome(fd) ==
    IF ~Truthy(fd) THEN HttpError(FetchFailedDetail)
    ELSE HttpReturn(intro_message(fd))

\* chat_with_bot, after the fetch: the branch taken, the values of its locals,
\* the functions it called and its response.  The body is {"response": ...};
\* kind tells the list of matches from a text, which in JSON the value's type does
chat_with_bot(q, fd) ==
    LET user_input == strip(q)
        base == [intent |-> "None", cleaned_query |-> NoneStr, matches |-> <<>>,
                 calls |-> {"is_greeting"}, response |-> HttpError(FetchFailedDetail)]
        answer(ms) ==
            IF ms # <<>> THEN HttpReturn([response |-> ms, kind |-> "matches"])
            ELSE HttpReturn([response |-> NoMatchText, kind |-> "text"])
    IN  IF ~Truthy(fd) THEN [base EXCEPT !.calls = {}]
        ELSE IF is_greeting(user_input)
        THEN [base EXCEPT !.intent = "Greeting",
                          !.calls = @ \cup {"intro_message"},
                          !.response = HttpReturn(intro_message(fd))]
        ELSE IF contains_fuzzy_command(user_input)
        THEN LET cleaned == clean_fuzzy_query(user_input)
             IN  IF cleaned = ""
                 THEN [base EXCEPT !.intent = "FuzzyCommand",
                                   !.cleaned_query = cleaned,
                                   !.calls = @ \cup {"contains_fuzzy_command", "clean_fuzzy_query"},
                                   !.response = HttpReturn([response |-> GuidanceText,
                                                            kind |-> "text"])]
                 ELSE LET found == search_faqs(cleaned, fd)
                      IN  [base EXCEPT !.intent = "FuzzyCommand",
                                       !.cleaned_query = cleaned,
                                       !.matches = found,
                                       !.calls = @ \cup {"contains_fuzzy_command",
                                                         "clean_fuzzy_query", "search_faqs"},
                                       !.response = answer(found)]
        ELSE LET found == search_faqs(user_input, fd)
             IN  [base EXCEPT !.intent = "PlainQuery",
                              !.matches = found,
                              !.calls = @ \cup {"contains_fuzzy_command", "search_faqs"},
                              !.response = answer(found)]

-----------------------------------------------------------------------------
(* the payloads and the queries explored *)

\* the longest query, in words of Words
MaxWords == 2

\* the largest payload, in groups of Groups
MaxGroups == 2

\* all sequences over S of length at most n
SeqsUpTo(S, n) == UNION {[1..k -> S] : k \in 0..n}

RECURSIVE Join(_)
\* the words of ws with one space between them
Join(ws) ==
    IF ws = <<>> THEN ""
    ELSE IF Len(ws) = 1 THEN ws[1]
    ELSE ws[1] \o " " \o Join(Tail(ws))

\* the words queries are made of: the empty word gives leading, trailing and
\* repeated spaces
Words ==
    {"", "show me fni for", "tell me about", "what is", "the", "x",
     "ab", "Cd", "Hi", "on-ab"}

Queries == {Join(ws) : ws \in SeqsUpTo(Words, MaxWords)}

\* FniRecords: any field may be missing
Fn1 == [question |-> "Q ab?", response |-> "r1", clauseName |-> "Ab",
        documentTypeName |-> "Cd", submittedByUserName |-> "u1"]
Fn2 == [question |-> "Cd", response |-> "r2"]
Fn3 == [response |-> "r3", clauseName |-> ""]

\* FaqGroups: any field may be missing
Groups ==
    {[name |-> "Ab", documentTypeName |-> "Cd Ef", clientTypeName |-> "Xy",
      fnIs |-> <<Fn1, Fn2, Fn3>>],
     [name |-> "", documentTypeName |-> "ab", clientTypeName |-> "Zz",
      fnIs |-> <<Fn3, Fn2, Fn2>>],
     [clientTypeName |-> "Y-ab"]}

\* payloads with the result list
Datasets == {[data |-> [result |-> gs]] : gs \in SeqsUpTo(Groups, MaxGroups)}

\* payloads that lack the result list, the data object, or everything
MalformedDatasets ==
    {[data |-> [totalCount |-> "0"]], [message |-> "ok"], <<>>}

Idle ==
    /\ endpoint = "idle"
    /\ query = NoneStr
    /\ faq_data = None
    /\ intent = "None"
    /\ cleaned_query = NoneStr
    /\ matches = <<>>
    /\ calls = {}
    /\ response = None

Init ==
    /\ upstream \in {[status |-> "200", json |-> d] : d \in Datasets}
                    \cup {[status |-> "200", json |-> None], [status |-> "500", json |-> None]}
    /\ Idle

InitMalformed ==
    /\ upstream \in {[status |-> "200", json |-> d] : d \in Datasets \cup MalformedDatasets}
    /\ Idle

\* GET /
Root ==
    /\ endpoint = "idle"
    /\ endpoint' = "/"
    /\ response' = [status |-> 200, body |-> [message |-> "LUAN - Infracredit AI Bot API is running"]]
    /\ UNCHANGED <<upstream, query, faq_data, intent, cleaned_query, matches, calls>>

\* GET /welcome
GetWelcome ==
    /\ endpoint = "idle"
    /\ endpoint' = "/welcome"
    /\ faq_data' = fetch_faqs(upstream)
    /\ calls' = IF Truthy(fetch_faqs(upstream)) THEN {"intro_message"} ELSE {}
    /\ response' = get_welcome(fetch_faqs(upstream))
    /\ UNCHANGED <<upstream, query, intent, cleaned_query, matches>>

\* POST /chat with body {"query": q}
ChatWithBot ==
    /\ endpoint = "idle"
    /\ \E q \in Queries :
          \E out \in {chat_with_bot(q, fetch_faqs(upstream))} :
              /\ endpoint' = "/chat"
              /\ query' = q
              /\ faq_data' = fetch_faqs(upstream)
              /\ intent' = out.intent
              /\ cleaned_query' = out.cleaned_query
              /\ matches' = out.matches
              /\ calls' = out.calls
              /\ response' = out.response
    /\ UNCHANGED upstream

Next == Root \/ GetWelcome \/ ChatWithBot

Spec == Init /\ [][Next]_vars

SpecMalformed == InitMalformed /\ [][Next]_vars

-----------------------------------------------------------------------------
(* what the statements below are written with *)

\* the request has been answered by POST /chat from a fetched payload
Chatted == endpoint = "/chat" /\ Truthy(faq_data)

\* the handler called search_faqs
Searched == Chatted /\ "search_faqs" \in calls

\* the query the handler gave to search_faqs
SearchQuery == IF intent = "FuzzyCommand" THEN cleaned_query ELSE strip(query)

\* the handler returned the text t as {"response": t}
Answered(t) ==
    /\ response.status = 200
    /\ "body" \in DOMAIN response
    /\ "kind" \in DOMAIN response.body
    /\ response.body.kind = "text"
    /\ response.body.response = t

\* the handler returned the non-empty list ms as {"response": ms}
AnsweredMatches(ms) ==
    /\ response.status = 200
    /\ "body" \in DOMAIN response
    /\ "kind" \in DOMAIN response.body
    /\ response.body.kind = "matches"
    /\ response.body.response = ms

Range(f) == {f[k] : k \in DOMAIN f}

\* the elements of the finite set S of positions, in the order Before
Sorted(S, Before(_, _)) ==
    [k \in 1..Cardinality(S) |->
        CHOOSE p \in S : Cardinality({r \in S : Before(r, p)}) + 1 = k]

\* the groups of a payload; a missing list counts as empty
GroupsOf(fd) == Get(Get(fd, "data", <<>>), "result", <<>>)

\* the records of a payload by position <<group, record>>
Positions(fd) ==
    UNION {{<<g, i>> : i \in 1..Len(Get(GroupsOf(fd)[g], "fnIs", <<>>))} :
              g \in 1..Len(GroupsOf(fd))}

DatasetOrder(p, r) == p[1] < r[1] \/ (p[1] = r[1] /\ p[2] < r[2])

RecordAt(fd, p) == GroupsOf(fd)[p[1]]["fnIs"][p[2]]

\* a record's clause and document type: its own, else the owning group's, lower-cased
ClauseAt(fd, p) ==
    IF "clauseName" \in DOMAIN RecordAt(fd, p) THEN lower(RecordAt(fd, p)["clauseName"])
    ELSE IF "name" \in DOMAIN GroupsOf(fd)[p[1]] THEN lower(GroupsOf(fd)[p[1]]["name"])
    ELSE ""

DocumentTypeAt(fd, p) ==
    IF "documentTypeName" \in DOMAIN RecordAt(fd, p)
    THEN lower(RecordAt(fd, p)["documentTypeName"])
    ELSE IF "documentTypeName" \in DOMAIN GroupsOf(fd)[p[1]]
    THEN lower(GroupsOf(fd)[p[1]]["documentTypeName"])
    ELSE ""

QuestionAt(fd, p) ==
    IF "question" \in DOMAIN RecordAt(fd, p) THEN lower(RecordAt(fd, p)["question"]) ELSE ""

\* every token occurs in one of the three parts of the record's surface
MatchesAll(fd, p, toks) ==
    \A k \in 1..Len(toks) :
        \/ contains(QuestionAt(fd, p), toks[k])
        \/ contains(ClauseAt(fd, p), toks[k])
        \/ contains(DocumentTypeAt(fd, p), toks[k])

\* the MatchResult of the record at p
ResultAt(fd, p) ==
    [question |-> IF "question" \in DOMAIN RecordAt(fd, p)
                  THEN RecordAt(fd, p)["question"] ELSE NoneStr,
     answer |-> IF "response" \in DOMAIN RecordAt(fd, p)
                THEN RecordAt(fd, p)["response"] ELSE "",
     clause |-> ClauseAt(fd, p),
     documentType |-> DocumentTypeAt(fd, p),
     submittedBy |-> IF "submittedByUserName" \in DOMAIN RecordAt(fd, p)
                     THEN RecordAt(fd, p)["submittedByUserName"] ELSE "Unknown User"]

\* the MatchResults of the records at the positions listed
ResultsAt(fd, order) == [k \in 1..Len(order) |-> ResultAt(fd, order[k])]

\* the AllTokens match result for toks: the matching records in dataset order
ExpectedMatches(fd, toks) ==
    ResultsAt(fd, Sorted({p \in Positions(fd) : MatchesAll(fd, p, toks)}, DatasetOrder))

\* the whitespace-delimited words of s by their first and last character
WordSpans(s) ==
    LET firsts == {i \in 1..Len(s) :
                      /\ CharAt(s, i) \notin Whitespace
                      /\ i = 1 \/ CharAt(s, i - 1) \in Whitespace}
        lasts == {i \in 1..Len(s) :
                     /\ CharAt(s, i) \notin Whitespace
                     /\ i = Len(s) \/ CharAt(s, i + 1) \in Whitespace}
    IN  {<<a, Min({b \in lasts : a <= b})>> : a \in firsts}

SpanOrder(v, w) == v[1] < w[1]

\* the parts of s the spans listed cover
Slices(s, order) == [k \in 1..Len(order) |-> SubSeq(s, order[k][1], order[k][2])]

\* the words of s, in order
WordsOf(s) == Slices(s, Sorted(WordSpans(s), SpanOrder))

\* the tokens the handler matched with
MatchTokens == query_tokens_of(SearchQuery)

-----------------------------------------------------------------------------
(* C1 *)

\* C1 (as stated): a chat query that is not a greeting and leaves no match token
\* after normalisation, on the fuzzy-command path or on the plain-query path, is
\* answered with the guidance text, never with the "no match" text.
C1_EmptyTokensGetGuidance ==
    (Chatted /\ intent \in {"FuzzyCommand", "PlainQuery"} /\ MatchTokens = <<>>)
        => Answered(GuidanceText)

-----------------------------------------------------------------------------
(* C2 *)

\* the raw input contains a greeting phrase, whatever the letter case
HasGreeting(q) ==
    \E g \in Range(greetings) :
        \E i \in 0..(Len(q) - 1) :
            /\ i + Len(g) <= Len(q)
            /\ lower(CharAt(q, i + 1)) = CharAt(g, 1)
            /\ lower(SubSeq(q, i + 1, i + Len(g))) = g

\* the raw input starts with a fuzzy-command keyword
StartsWithKeyword(q) ==
    \E kw \in Range(fuzzy_keywords) : startswith(lower(lstrip(q)), kw)

\* C2: a chat input that contains a greeting phrase as a substring, in any letter
\* case, is handled as a Greeting: the handler returns the intro message and calls
\* neither the fuzzy-command test, nor the normaliser, nor the matcher, also when
\* the input starts with a fuzzy-command keyword.
C2_GreetingPrecedence ==
    (Chatted /\ HasGreeting(query)) =>
        /\ intent = "Greeting"
        /\ calls = {"is_greeting", "intro_message"}
        /\ cleaned_query = NoneStr
        /\ matches = <<>>
        /\ response = [status |-> 200, body |-> intro_message(faq_data)]

\* a greeting after a fuzzy-command keyword, in upper case, has been answered
C2_Witness ==
    /\ Chatted
    /\ HasGreeting(query)
    /\ StartsWithKeyword(query)
    /\ query # lower(query)
    /\ intent = "Greeting"

-----------------------------------------------------------------------------
(* C3 *)

\* C3: for a non-empty list of normalised tokens search_faqs returns exactly the
\* records, group by group and record by record in dataset order, duplicates kept,
\* whose surface (lower-cased question, resolved clause, resolved document type)
\* contains every token; the empty list when no record does.
C3_ExactMatchesInDatasetOrder ==
    (Searched /\ MatchTokens # <<>>) => matches = ExpectedMatches(faq_data, MatchTokens)

\* two tokens matched some records and not others, and two equal results were kept
C3_Witness ==
    /\ Searched
    /\ Len(MatchTokens) = 2
    /\ Len(matches) >= 2
    /\ Len(matches) < Cardinality(Positions(faq_data))
    /\ \E k \in 1..(Len(matches) - 1) : matches[k] = matches[k + 1]

-----------------------------------------------------------------------------
(* C4 *)

\* C4: every record search_faqs returns for the tokens {a, b} it also returns for
\* the token a alone, and for b alone.
C4_AllTokensMonotonic ==
    (Searched /\ Len(MatchTokens) >= 2) =>
        \A k \in 1..Len(MatchTokens) :
            Range(matches) \subseteq Range(search_faqs(MatchTokens[k], faq_data))

\* two tokens matched something, and one of them alone matched more
C4_Witness ==
    /\ Searched
    /\ Len(MatchTokens) = 2
    /\ matches # <<>>
    /\ \E k \in 1..2 : Len(search_faqs(MatchTokens[k], faq_data)) > Len(matches)

-----------------------------------------------------------------------------
(* C5 *)

RECURSIVE upper(_)
\* s with every lower-case letter in upper case
upper(s) ==
    IF s = "" THEN ""
    ELSE LET c == CharAt(s, 1)
             ups == {u \in DOMAIN LowerCaseOf : LowerCaseOf[u] = c}
         IN  (IF ups = {} THEN c ELSE CHOOSE u \in ups : TRUE) \o upper(Tail(s))

\* the payload with fold applied to every question, clause and document type
Recased(fd, fold(_)) ==
    LET rec(fn) ==
            [k \in DOMAIN fn |->
                IF k \in {"question", "clauseName", "documentTypeName"}
                THEN fold(fn[k]) ELSE fn[k]]
        grp(item) ==
            [k \in DOMAIN item |->
                IF k = "fnIs" THEN [i \in 1..Len(item[k]) |-> rec(item[k][i])]
                ELSE IF k \in {"name", "documentTypeName"} THEN fold(item[k])
                ELSE item[k]]
    IN  [data |-> [result |-> [g \in 1..Len(GroupsOf(fd)) |-> grp(GroupsOf(fd)[g])]]]

\* results up to the letter case of the question they echo
Folded(ms) ==
    [k \in 1..Len(ms) |-> [ms[k] EXCEPT !.question = lower(@)]]

\* C5: search_faqs returns the same results for queries that differ only in
\* letter case, and matches the same records of payloads whose questions, clauses
\* and document types differ only in letter case.
C5_CaseInsensitive ==
    Searched =>
        /\ matches = search_faqs(lower(SearchQuery), faq_data)
        /\ matches = search_faqs(upper(SearchQuery), faq_data)
        /\ Folded(matches) = Folded(search_faqs(SearchQuery, Recased(faq_data, lower)))
        /\ Folded(matches) = Folded(search_faqs(SearchQuery, Recased(faq_data, upper)))

\* a query in mixed case matched records of a payload in mixed case
C5_Witness ==
    /\ Searched
    /\ SearchQuery # lower(SearchQuery)
    /\ SearchQuery # upper(SearchQuery)
    /\ matches # <<>>
    /\ faq_data # Recased(faq_data, lower)
    /\ faq_data # Recased(faq_data, upper)

-----------------------------------------------------------------------------
(* C6 *)

\* the value of key in the first group where it is present and not empty
FirstNonEmpty(fd, key, placeholder) ==
    LET having == {g \in 1..Len(GroupsOf(fd)) :
                      key \in DOMAIN GroupsOf(fd)[g] /\ GroupsOf(fd)[g][key] # ""}
    IN  IF having = {} THEN placeholder ELSE GroupsOf(fd)[Min(having)][key]

ExpectedIntro(fd) ==
    LET clause == FirstNonEmpty(fd, "name", "Clause 1")
        doc == FirstNonEmpty(fd, "documentTypeName", "Document 1")
        client == FirstNonEmpty(fd, "clientTypeName", "Client 1")
    IN  [welcome |->
           [title |-> "Hi, I'm LUAN, Infracredit's AI Bot.",
            intro |-> "Ask me things like:",
            examples |->
               <<"-> Show me negotiated issues about document type \"" \o doc \o "\"",
                 "-> Tell me about FNI for clause \"" \o clause \o "\"",
                 "-> List issues in client type \"" \o client \o "\"",
                 "-> Give me FNI for \"" \o clause \o "\"">>]]

\* the intro message has been returned, by GET /welcome or to a greeting
Introduced ==
    /\ Truthy(faq_data)
    /\ endpoint = "/welcome" \/ (endpoint = "/chat" /\ intent = "Greeting")

\* C6: the examples of the intro message are the first non-empty name, the first
\* non-empty documentTypeName and the first non-empty clientTypeName over the
\* groups in dataset order, each chosen on its own, and "Clause 1", "Document 1",
\* "Client 1" where no group has one; the message depends on the payload alone.
C6_IntroExamples ==
    Introduced => response = [status |-> 200, body |-> ExpectedIntro(faq_data)]

\* an example came from the second group, another from the first, and a
\* placeholder was used
C6_Witness ==
    /\ endpoint = "/welcome"
    /\ Len(GroupsOf(faq_data)) = 2
    /\ Get(GroupsOf(faq_data)[1], "documentTypeName", "") = ""
    /\ Get(GroupsOf(faq_data)[2], "documentTypeName", "") # ""
    /\ Get(GroupsOf(faq_data)[1], "clientTypeName", "") # ""
    /\ \A g \in 1..2 : Get(GroupsOf(faq_data)[g], "name", "") = ""
    /\ response.status = 200

-----------------------------------------------------------------------------
(* C7 *)

\* the filler words of the normaliser and the stop words of the matcher
FillerWords == Range(fillers) \cup stop_words

IsPrefixOf(u, w) == Len(u) <= Len(w) /\ SubSeq(w, 1, Len(u)) = u

\* the words of q after the command prefix p
AfterPrefix(q, p) ==
    SubSeq(WordsOf(lower(q)), Len(WordsOf(p)) + 1, Len(WordsOf(lower(q))))

\* how many filler words ws starts with
LeadingFillers(ws) ==
    CHOOSE n \in 0..Len(ws) :
        /\ \A k \in 1..n : ws[k] \in FillerWords
        /\ n = Len(ws) \/ ws[n + 1] \notin FillerWords

\* the value tokens of q read as: the prefix p, filler words, value tokens
ValueTokens(q, p) ==
    SubSeq(AfterPrefix(q, p), LeadingFillers(AfterPrefix(q, p)) + 1, Len(AfterPrefix(q, p)))

\* q is the command prefix p, then filler words, then at least one value token,
\* each value token no filler word and longer than one character
PrefixFillersValue(q, p) ==
    /\ IsPrefixOf(WordsOf(p), WordsOf(lower(q)))
    /\ ValueTokens(q, p) # <<>>
    /\ \A k \in 1..Len(ValueTokens(q, p)) :
          ValueTokens(q, p)[k] \notin FillerWords /\ Len(ValueTokens(q, p)[k]) > 1

\* the handler answered with the list ms, or with the "no match" text for none
AnsweredWith(ms) ==
    IF ms = <<>> THEN Answered(NoMatchText) ELSE AnsweredMatches(ms)

\* C7 (as stated): a chat query that is not a greeting and is made of a known
\* command prefix, then filler words, then value tokens V (no filler words, each
\* longer than one character) is normalised to exactly the tokens of V, in order,
\* and answered with the AllTokens match result for V.
C7_PrefixAndFillersRemovedValueKept ==
    (Chatted /\ ~HasGreeting(query)) =>
        \A p \in Range(prefix_alternatives) :
            PrefixFillersValue(query, p) =>
                /\ MatchTokens = ValueTokens(query, p)
                /\ matches = ExpectedMatches(faq_data, ValueTokens(query, p))
                /\ AnsweredWith(ExpectedMatches(faq_data, ValueTokens(query, p)))

-----------------------------------------------------------------------------
(* C8 *)

\* the words of the plain query the matcher keeps: no stop word, no single character
KeptWords(q) ==
    SelectSeq(WordsOf(lower(q)), LAMBDA w : w \notin stop_words /\ Len(w) >= 2)

-----------------------------------------------------------------------------
(* C9 *)

\* C9 (as stated): whatever fields of a fetched payload are missing, search_faqs
\* and intro_message complete without raising and use the defaults: the owning
\* group's clause and document type, "Unknown User", the empty list.
C9_MissingFieldsTolerated ==
    (endpoint \in {"/welcome", "/chat"} /\ Truthy(faq_data)) =>
        /\ response.status = 200
        /\ (Searched /\ MatchTokens # <<>>) => matches = ExpectedMatches(faq_data, MatchTokens)
        /\ Introduced => response = [status |-> 200, body |-> ExpectedIntro(faq_data)]

-----------------------------------------------------------------------------
(* C10 *)

\* the text clean_fuzzy_query applies its patterns to
Normalised(q) == strip(lower(strip(q)))

\* the known prefixes that match at the start of text, followed by whitespace
MatchingPrefixes(text) ==
    {p \in Range(prefix_alternatives) : \E w \in Whitespace : startswith(text, p \o w)}

Longest(S) == IF S = {} THEN "" ELSE CHOOSE p \in S : \A r \in S : Len(r) <= Len(p)

Shortest(S) == IF S = {} THEN "" ELSE CHOOSE p \in S : \A r \in S : Len(p) <= Len(r)

\* C10 (as stated): of the known prefixes that match the start of a fuzzy query,
\* clean_fuzzy_query strips the longest.
C10_LongestPrefixStripped ==
    (Chatted /\ intent = "FuzzyCommand") =>
        matched_prefix(Normalised(query)) = Longest(MatchingPrefixes(Normalised(query)))

\* C10 (amended): of the known prefixes that match the start of a fuzzy query,
\* the prefix pattern strips the one listed first, which is the shortest ("show"
\* rather than "show me"); the words the longer prefix adds ("me", "for", "about")
\* are filler words and go with the fillers, so that the cleaned query is the one
\* that stripping the longest prefix gives.
C10_FirstListedPrefixStripped ==
    (Chatted /\ intent = "FuzzyCommand") =>
        /\ matched_prefix(Normalised(query)) = Shortest(MatchingPrefixes(Normalised(query)))
        /\ cleaned_query =
              strip(collapse_spaces(sub_fillers(
                  lstrip(From(Normalised(query),
                              Len(Longest(MatchingPrefixes(Normalised(query)))) + 1)), 1)))

\* two known prefixes matched a fuzzy query that kept a value
C10_Witness ==
    /\ Chatted
    /\ intent = "FuzzyCommand"
    /\ Cardinality(MatchingPrefixes(Normalised(query))) >= 2
    /\ cleaned_query # ""

====
